---- MODULE Spec2Model ----
(***************************************************************************)
(* A model of sys_monitor.computer_facts: the query-and-resample pipeline  *)
(* (db_query, regularize_timeseries), the series renderer                   *)
(* (make_fact_lines and the three plot functions) and the two request     *)
(* handlers (render_computer_facts, render_latest_facts).                   *)
(*                                                                         *)
(* Timestamps are minutes since the epoch (the store truncates to the      *)
(* minute).  A float is an exact fraction [kind, num, den] in lowest terms *)
(* or the NaN marker, so that a mean is computed and not assumed.          *)
(* A call's outcome is Return(v) or Raise(exception name).                 *)
(***************************************************************************)
EXTENDS Integers, Sequences, FiniteSets, TLC

VARIABLES
    data,       \* argument of the function under test (a list of dicts)
    ret,        \* the function called and its outcome: Return(v) or Raise(e)
    COLORMAP,   \* module global computer_facts.COLORMAP (palettes.Dark2)
    rdata,      \* render r: the records handed to the plot function
    rendered,   \* render r: the plot function called and its outcome
    req,        \* request r: handler, pc, current query, data, charts, response
    conns,      \* every store connection opened so far, in order, with its state
    attempts,   \* request r, query q: calls of connect()
    failedAt    \* request r: 0, or the query whose db_query raised

vars == <<data, ret, COLORMAP, rdata, rendered, req, conns, attempts, failedAt>>

-----------------------------------------------------------------------------
(* Bounds and program constants *)

MaxRows == 3        \* longest input list of the pure-function specifications
MaxRecords == 3     \* longest record list handed to one render

TIMESTEP_MINS == 5
MinPalette == 3     \* palettes.Dark2 has the keys 3..8
MaxPalette == 8

\* Minutes at which the samples of the bounded inputs are taken: two in the
\* first interval, one on the next boundary, one two intervals later.
SampleMinutes == {0, 4, 5, 12}
SampleValues == {60, 70}

\* The nine tracked facts in Python's string order (sorted(), pandas groupby).
FactOrder ==
    << "cpu_temp_f", "cpu_use_pct", "gpu_temp_f", "hd_use_pct", "memory_use_pct",
       "moomoo_queue_new", "moomoo_queue_old", "moomoo_queue_updated", "rpi_temp_f" >>

Rank(f) == CHOOSE i \in 1..Len(FactOrder) : FactOrder[i] = f

-----------------------------------------------------------------------------
(* Outcomes, floats, generic list helpers *)

NotCalled == [kind |-> "not_called"]
Return(v) == [kind |-> "return", value |-> v]
Raise(e) == [kind |-> "raise", exc |-> e]

NaN == [kind |-> "nan", num |-> 0, den |-> 0]

RECURSIVE GCD(_, _)
GCD(a, b) == IF b = 0 THEN a ELSE GCD(b, a % b)

Float(n, d) == [kind |-> "float", num |-> n \div GCD(n, d), den |-> d \div GCD(n, d)]

Range(s) == {s[i] : i \in DOMAIN s}

Min(S) == CHOOSE x \in S : \A y \in S : x <= y
Max(S) == CHOOSE x \in S : \A y \in S : x >= y

RECURSIVE Sum(_)
Sum(s) == IF s = <<>> THEN 0 ELSE s[1] + Sum(Tail(s))

RECURSIVE Concat(_)
Concat(ss) == IF ss = <<>> THEN <<>> ELSE ss[1] \o Concat(Tail(ss))

BoundedSeq(S, n) == UNION {[1..m -> S] : m \in 0..n}

\* Lexicographic <= on integer tuples of equal length (Python tuple order).
RECURSIVE TupleLE(_, _)
TupleLE(a, b) ==
    IF a = <<>> THEN TRUE
    ELSE IF a[1] < b[1] THEN TRUE
    ELSE IF a[1] > b[1] THEN FALSE
    ELSE TupleLE(Tail(a), Tail(b))

\* A stable insertion sort of [key, item] pairs: equal keys keep their order.
RECURSIVE InsertPair(_, _)
InsertPair(p, s) ==
    IF s = <<>> THEN <<p>>
    ELSE IF TupleLE(s[Len(s)].key, p.key) THEN Append(s, p)
    ELSE Append(InsertPair(p, SubSeq(s, 1, Len(s) - 1)), s[Len(s)])

RECURSIVE SortPairs(_)
SortPairs(s) ==
    IF s = <<>> THEN <<>>
    ELSE InsertPair(s[Len(s)], SortPairs(SubSeq(s, 1, Len(s) - 1)))

\* Python's sorted(s, key=...): keys[i] is the key of s[i], a tuple of integers.
sorted(s, keys) ==
    LET pairs == [i \in DOMAIN s |-> [key |-> keys[i], item |-> s[i]]]
        done  == SortPairs(pairs)
    IN  [i \in DOMAIN done |-> done[i].item]

\* The elements of a set of integers in increasing order.
RECURSIVE Ascending(_)
Ascending(S) == IF S = {} THEN <<>> ELSE <<Min(S)>> \o Ascending(S \ {Min(S)})

FactNames(d) == {d[i].fact_name : i \in DOMAIN d}

\* The distinct fact names of d in string order.
SortedFacts(d) ==
    LET ranks == Ascending({Rank(f) : f \in FactNames(d)})
    IN  [i \in DOMAIN ranks |-> FactOrder[ranks[i]]]

-----------------------------------------------------------------------------
(* regularize_timeseries *)

\* Timestamp.floor("5min")
Floor(ts) == ts - (ts % TIMESTEP_MINS)

\* group.assign(ts=lambda d: d.ts.dt.floor(...))
AssignFloor(group) == [i \in DOMAIN group |-> [group[i] EXCEPT !.ts = Floor(@)]]

MeanDistinct(values) ==
    LET S == Range(values) IN Float(Sum(Ascending(S)), Cardinality(S))

\* The arithmetic mean of a non-empty list of values.
Mean(values) == Float(Sum(values), Len(values))

\* .groupby("ts").mean(): one row per distinct ts, in increasing ts, holding
\* the mean of the fact_value column (the string column fact_name is dropped).
GroupByTsMean(group) ==
    LET keys == Ascending({group[i].ts : i \in DOMAIN group})
        vals(t) == LET rows == SelectSeq(group, LAMBDA r : r.ts = t)
                   IN  [i \in DOMAIN rows |-> rows[i].fact_value]
    IN  [i \in DOMAIN keys |-> [ts |-> keys[i], fact_value |-> Mean(vals(keys[i]))]]

NoAsfreq(frame) == frame

\* .asfreq("5min"): reindex on the range from the first to the last index
\* value, one row per step; a step with no row holds NaN.
asfreq(frame) ==
    LET lo == frame[1].ts
        hi == frame[Len(frame)].ts
        n  == ((hi - lo) \div TIMESTEP_MINS) + 1
        at(t) == IF \E i \in DOMAIN frame : frame[i].ts = t
                 THEN (CHOOSE r \in Range(frame) : r.ts = t).fact_value
                 ELSE NaN
    IN  [i \in 1..n |->
            [ts |-> lo + (i - 1) * TIMESTEP_MINS,
             fact_value |-> at(lo + (i - 1) * TIMESTEP_MINS)]]

\* .reset_index().assign(fact_name=key).to_dict(orient="records")
ToRecords(frame, key) ==
    [i \in DOMAIN frame |->
        [ts |-> frame[i].ts, fact_name |-> key, fact_value |-> frame[i].fact_value]]

RegularizeGroup(d, key) ==
    ToRecords(
        asfreq(GroupByTsMean(AssignFloor(SelectSeq(d, LAMBDA r : r.fact_name = key)))),
        key)

\* pd.DataFrame([]) has no column fact_name, so groupby("fact_name") raises
\* KeyError on an empty list; otherwise the groups come in key order.
regularize_timeseries(d) ==
    IF d = <<>> THEN Raise("KeyError")
    ELSE LET keys == SortedFacts(d)
         IN  Return(Concat([i \in DOMAIN keys |-> RegularizeGroup(d, keys[i])]))

-----------------------------------------------------------------------------
(* make_fact_lines and the plot functions *)

\* palettes.Dark2: a palette for each size from 3 to 8, each a prefix of the
\* eight Dark2 colours.
Dark2_8 ==
    << "#1b9e77", "#d95f02", "#7570b3", "#e7298a",
       "#66a61e", "#e6ab02", "#a6761d", "#666666" >>
Dark2 == [k \in MinPalette..MaxPalette |-> SubSeq(Dark2_8, 1, k)]

\* itertools.groupby(s, key=fact_name): the maximal runs of consecutive
\* elements with the same fact_name, in order.
RECURSIVE GroupBy(_)
GroupBy(s) ==
    IF s = <<>> THEN <<>>
    ELSE LET rest == GroupBy(Tail(s))
         IN  IF rest # <<>> /\ rest[1].key = s[1].fact_name
             THEN <<[key |-> s[1].fact_name, series |-> <<s[1]>> \o rest[1].series]>>
                  \o Tail(rest)
             ELSE <<[key |-> s[1].fact_name, series |-> <<s[1]>>]>> \o rest

NoCopy(palette) == [items |-> palette, shared |-> TRUE]

\* list(palette): a new list object holding the palette's colours.
ListCopy(palette) == [items |-> palette, shared |-> FALSE]

\* sorted(data, key=lambda x: x["fact_name"])
SortedByFact(d) == sorted(d, [i \in DOMAIN d |-> <<Rank(d[i].fact_name)>>])

\* The for loop of make_fact_lines: one plot.line per group, its colour popped
\* from the end of cmap.  list.pop() on an empty list raises IndexError.
RECURSIVE FactLines(_, _, _)
FactLines(groups, cmap, lines) ==
    IF groups = <<>> THEN [out |-> Return(lines), cmap |-> cmap]
    ELSE IF cmap = <<>> THEN [out |-> Raise("IndexError"), cmap |-> cmap]
    ELSE LET series == groups[1].series
             line == [legend_label |-> groups[1].key,
                      color |-> cmap[Len(cmap)],
                      x |-> [i \in DOMAIN series |-> series[i].ts],
                      y |-> [i \in DOMAIN series |-> series[i].fact_value]]
         IN  FactLines(Tail(groups), SubSeq(cmap, 1, Len(cmap) - 1), Append(lines, line))

\* make_fact_lines(plot, data) with the module global COLORMAP = cm.  The
\* outcome is the plot with its lines (or the exception); COLORMAP is the
\* global afterwards: changed only if cmap is the palette object itself.
make_fact_lines(cm, plot, d) ==
    LET k == Cardinality(FactNames(d))
    IN  IF k \notin DOMAIN cm THEN [out |-> Raise("KeyError"), COLORMAP |-> cm]
        ELSE LET cmap == ListCopy(cm[k])
                 loop == FactLines(GroupBy(SortedByFact(d)), cmap.items, plot.lines)
             IN  [out |-> IF loop.out.kind = "return"
                          THEN Return([plot EXCEPT !.lines = loop.out.value])
                          ELSE loop.out,
                  COLORMAP |-> IF cmap.shared THEN [cm EXCEPT ![k] = loop.cmap] ELSE cm]

\* make_timeseries_plot(): no line, a datetime x axis over the last
\* PLOT_TIME_RANGE_HOURS hours.
make_timeseries_plot ==
    [x_axis_type |-> "datetime", x_range |-> "last 24 hours",
     y_formatter |-> "default", y_range |-> "auto",
     lines |-> <<>>, legend_location |-> "default"]

\* plot.legend.location = "top_left", when make_fact_lines returned.
WithLegend(res) ==
    IF res.out.kind = "return"
    THEN [res EXCEPT !.out = Return([res.out.value EXCEPT !.legend_location = "top_left"])]
    ELSE res

plot_temps(cm, d) ==
    WithLegend(make_fact_lines(cm,
        [make_timeseries_plot EXCEPT !.y_formatter = "%d deg f"], d))

plot_percents(cm, d) ==
    WithLegend(make_fact_lines(cm,
        [make_timeseries_plot EXCEPT !.y_formatter = "0%", !.y_range = "0..1"], d))

plot_counts(cm, d) ==
    WithLegend(make_fact_lines(cm, make_timeseries_plot, d))

-----------------------------------------------------------------------------
(* render_latest_facts, after its db_query *)

FirstOf(s) == s[1]

\* list(group)[-1]
LastOf(s) == s[Len(s)]

\* The dict latest: for each group of the rows sorted by (fact_name, ts), the
\* group's last row without its fact_name key.  (json.dumps then writes the
\* dict as a JSON object with the same keys; the text is not modelled.)
LatestOf(d) ==
    LET groups == GroupBy(sorted(d, [i \in DOMAIN d |-> <<Rank(d[i].fact_name), d[i].ts>>]))
        entry(g) == LET row == LastOf(g.series)
                    IN  [ts |-> row.ts, fact_value |-> row.fact_value]
    IN  [f \in {groups[i].key : i \in DOMAIN groups} |->
            entry(groups[Max({i \in DOMAIN groups : groups[i].key = f})])]

-----------------------------------------------------------------------------
(* The handlers' queries and the state of a request *)

Renders == {"a", "b"}
ReqIds == {"r1", "r2"}

\* get_plots: the three charts in the order the dict literal evaluates them.
PlotQueries ==
    << [title |-> "Moomoo Queue Counts", plot |-> "counts",
        facts |-> <<"moomoo_queue_updated", "moomoo_queue_new", "moomoo_queue_old">>],
       [title |-> "Temperatures", plot |-> "temps",
        facts |-> <<"cpu_temp_f", "gpu_temp_f", "rpi_temp_f">>],
       [title |-> "Usage Pct", plot |-> "percents",
        facts |-> <<"hd_use_pct", "cpu_use_pct", "memory_use_pct">>] >>

\* render_latest_facts: one query for all nine facts, not regularized.
LatestFacts ==
    << "cpu_temp_f", "gpu_temp_f", "rpi_temp_f", "hd_use_pct", "cpu_use_pct",
       "memory_use_pct", "moomoo_queue_updated", "moomoo_queue_new", "moomoo_queue_old" >>

QueriesOf(handler) ==
    IF handler = "index"
    THEN [q \in 1..3 |-> [facts |-> PlotQueries[q].facts, regularize |-> TRUE]]
    ELSE [q \in 1..1 |-> [facts |-> LatestFacts, regularize |-> FALSE]]

IdleReq ==
    [handler |-> "none", pc |-> "idle", q |-> 0, conn |-> 0,
     data |-> <<>>, charts |-> <<>>, response |-> "none", body |-> <<>>]

NoFailure == [q |-> 0, step |-> "none", exc |-> "none"]

\* The variables of the request handlers, at rest.
PageIdle ==
    /\ req = [r \in ReqIds |-> IdleReq]
    /\ conns = <<>>
    /\ attempts = [r \in ReqIds |-> [q \in 1..3 |-> 0]]
    /\ failedAt = [r \in ReqIds |-> NoFailure]

RenderIdle ==
    /\ rdata = [r \in Renders |-> <<>>]
    /\ rendered = [r \in Renders |-> [fn |-> "none", out |-> NotCalled]]

PureIdle ==
    /\ data = <<>>
    /\ ret = [fn |-> "none", out |-> NotCalled]

-----------------------------------------------------------------------------
(* The resampler and the latest-value selection as functions of their input *)

SampleFacts == {"cpu_temp_f", "gpu_temp_f"}

\* The rows a cursor yields: dict(zip(keys, row)) with the keys ts, fact_name,
\* fact_value.
Rows == [ts : SampleMinutes, fact_name : SampleFacts, fact_value : SampleValues]

InitPure ==
    /\ data \in BoundedSeq(Rows, MaxRows)
    /\ ret = [fn |-> "none", out |-> NotCalled]
    /\ COLORMAP = Dark2
    /\ RenderIdle
    /\ PageIdle

CallRegularize ==
    /\ ret.fn = "none"
    /\ ret' = [fn |-> "regularize_timeseries", out |-> regularize_timeseries(data)]
    /\ UNCHANGED <<data, COLORMAP, rdata, rendered, req, conns, attempts, failedAt>>

CallLatest ==
    /\ ret.fn = "none"
    /\ ret' = [fn |-> "render_latest_facts", out |-> Return(LatestOf(data))]
    /\ UNCHANGED <<data, COLORMAP, rdata, rendered, req, conns, attempts, failedAt>>

NextRegularize == CallRegularize
SpecRegularize == InitPure /\ [][NextRegularize]_vars

NextLatest == CallLatest
SpecLatest == InitPure /\ [][NextLatest]_vars

-----------------------------------------------------------------------------
(* Renders of charts that share the module global COLORMAP *)

ChartFacts == {"cpu_temp_f", "gpu_temp_f", "rpi_temp_f"}

\* Records as regularize_timeseries emits them, one per listed fact name.
RecordsOf(names) ==
    [i \in DOMAIN names |->
        [ts |-> (i - 1) * TIMESTEP_MINS, fact_name |-> names[i],
         fact_value |-> Float(60, 1)]]

InitLines ==
    /\ rdata \in [Renders -> {RecordsOf(n) : n \in BoundedSeq(ChartFacts, MaxRecords)}]
    /\ rendered = [r \in Renders |-> [fn |-> "none", out |-> NotCalled]]
    /\ COLORMAP = Dark2
    /\ PureIdle
    /\ PageIdle

\* One call of a plot function.  It does no I/O, so under the server's
\* cooperative scheduling it runs without interleaving.
Finish(r, fn, res) ==
    /\ rendered[r].fn = "none"
    /\ rendered' = [rendered EXCEPT ![r] = [fn |-> fn, out |-> res.out]]
    /\ COLORMAP' = res.COLORMAP
    /\ UNCHANGED <<data, ret, rdata, req, conns, attempts, failedAt>>

RenderTemps(r) == Finish(r, "plot_temps", plot_temps(COLORMAP, rdata[r]))
RenderPercents(r) == Finish(r, "plot_percents", plot_percents(COLORMAP, rdata[r]))
RenderCounts(r) == Finish(r, "plot_counts", plot_counts(COLORMAP, rdata[r]))

NextLines ==
    \E r \in Renders : RenderTemps(r) \/ RenderPercents(r) \/ RenderCounts(r)
SpecLines == InitLines /\ [][NextLines]_vars

-----------------------------------------------------------------------------
(* The request handlers: render_computer_facts (GET /) and                  *)
(* render_latest_facts (GET /latest.json).  A request runs its queries one  *)
(* after the other; requests interleave at most at the store calls.         *)

Query(r) == QueriesOf(req[r].handler)[req[r].q]

\* The rows the store returns for a query: it holds samples (one, at minute 0)
\* of the first n of the queried facts; ORDER BY ts, fact_name.
StoreRows(facts, n) ==
    sorted([i \in 1..n |-> [ts |-> 0, fact_name |-> facts[i], fact_value |-> 60]],
           [i \in 1..n |-> <<0, Rank(facts[i])>>])

RetryOnRaise(rq) == [rq EXCEPT !.pc = "connect"]

SwallowOnRaise(rq) ==
    IF rq.q < Len(QueriesOf(rq.handler))
    THEN [rq EXCEPT !.pc = "connect", !.q = @ + 1]
    ELSE [rq EXCEPT !.pc = "respond"]

\* An exception raised in db_query or in a plot function: neither db_query,
\* get_plots nor the handlers catch anything, so it leaves the handler.
OnRaise(rq) == [rq EXCEPT !.pc = "raised"]

Fail(r, step, exc) ==
    /\ req' = [req EXCEPT ![r] = OnRaise(@)]
    /\ failedAt' = [failedAt EXCEPT ![r] = [q |-> req[r].q, step |-> step, exc |-> exc]]

\* A request arrives at one of the two routes.
Arrive(r, h) ==
    /\ req[r].pc = "idle"
    /\ req' = [req EXCEPT ![r] = [IdleReq EXCEPT !.handler = h, !.pc = "connect", !.q = 1]]
    /\ UNCHANGED <<data, ret, COLORMAP, rdata, rendered, conns, attempts, failedAt>>

\* connect(os.environ["PSYCOPG_URI"]) returns a new connection.
ConnectOK(r) ==
    /\ req[r].pc = "connect"
    /\ attempts' = [attempts EXCEPT ![r][req[r].q] = @ + 1]
    /\ conns' = Append(conns, [owner |-> r, q |-> req[r].q, state |-> "open",
                               txn |-> "none", executed |-> 0, inCall |-> TRUE])
    /\ req' = [req EXCEPT ![r].pc = "execute", ![r].conn = Len(conns) + 1]
    /\ UNCHANGED <<data, ret, COLORMAP, rdata, rendered, failedAt>>

\* connect(...) raises: the store is unreachable or refuses the login.
ConnectFail(r) ==
    /\ req[r].pc = "connect"
    /\ attempts' = [attempts EXCEPT ![r][req[r].q] = @ + 1]
    /\ Fail(r, "connect", "OperationalError")
    /\ UNCHANGED <<data, ret, COLORMAP, rdata, rendered, conns>>

\* curs.execute(query) and the list comprehension over the cursor.
Execute(r) ==
    /\ req[r].pc = "execute"
    /\ \E n \in 0..Len(Query(r).facts) :
          req' = [req EXCEPT ![r].pc = "exit_with",
                             ![r].data = StoreRows(Query(r).facts, n)]
    /\ conns' = [conns EXCEPT ![req[r].conn].executed = @ + 1,
                              ![req[r].conn].txn = "begun"]
    /\ UNCHANGED <<data, ret, COLORMAP, rdata, rendered, attempts, failedAt>>

\* Leaving "with connect(...) as conn": psycopg2 commits the transaction and
\* leaves the connection open; only the cursor's with block closes something.
ExitWith(r) ==
    /\ req[r].pc = "exit_with"
    /\ conns' = [conns EXCEPT ![req[r].conn].txn = "committed"]
    /\ req' = [req EXCEPT ![r].pc = IF Query(r).regularize THEN "regularize" ELSE "return"]
    /\ UNCHANGED <<data, ret, COLORMAP, rdata, rendered, attempts, failedAt>>

\* data = regularize_timeseries(data) returns.
RegularizeOK(r) ==
    /\ req[r].pc = "regularize"
    /\ regularize_timeseries(req[r].data).kind = "return"
    /\ req' = [req EXCEPT ![r].pc = "return",
                          ![r].data = regularize_timeseries(req[r].data).value]
    /\ UNCHANGED <<data, ret, COLORMAP, rdata, rendered, conns, attempts, failedAt>>

\* regularize_timeseries raises, and so does db_query: the traceback keeps
\* db_query's frame and with it conn, which stays open.
RegularizeRaise(r) ==
    /\ req[r].pc = "regularize"
    /\ regularize_timeseries(req[r].data).kind = "raise"
    /\ Fail(r, "regularize", regularize_timeseries(req[r].data).exc)
    /\ conns' = [conns EXCEPT ![req[r].conn].inCall = FALSE]
    /\ UNCHANGED <<data, ret, COLORMAP, rdata, rendered, attempts>>

\* db_query returns data: its frame held the last reference to conn, whose
\* deallocation closes the connection.
ReturnQuery(r) ==
    /\ req[r].pc = "return"
    /\ conns' = [conns EXCEPT ![req[r].conn].inCall = FALSE,
                              ![req[r].conn].state = "closed"]
    /\ req' = [req EXCEPT ![r].pc = IF req[r].handler = "index" THEN "plot" ELSE "respond"]
    /\ UNCHANGED <<data, ret, COLORMAP, rdata, rendered, attempts, failedAt>>

PlotOf(kind, cm, d) ==
    CASE kind = "counts" -> plot_counts(cm, d)
      [] kind = "temps" -> plot_temps(cm, d)
      [] kind = "percents" -> plot_percents(cm, d)

\* get_plots: the plot function of the current chart returns; then the next
\* chart's query, or the page.
PlotOK(r) ==
    LET res == PlotOf(PlotQueries[req[r].q].plot, COLORMAP, req[r].data)
    IN  /\ req[r].pc = "plot"
        /\ res.out.kind = "return"
        /\ COLORMAP' = res.COLORMAP
        /\ req' = [req EXCEPT
              ![r].charts = Append(@, [title |-> PlotQueries[req[r].q].title,
                                       plot |-> res.out.value]),
              ![r].q = IF @ < 3 THEN @ + 1 ELSE @,
              ![r].pc = IF req[r].q < 3 THEN "connect" ELSE "respond"]
        /\ UNCHANGED <<data, ret, rdata, rendered, conns, attempts, failedAt>>

\* The plot function of the current chart raises.
PlotRaise(r) ==
    LET res == PlotOf(PlotQueries[req[r].q].plot, COLORMAP, req[r].data)
    IN  /\ req[r].pc = "plot"
        /\ res.out.kind = "raise"
        /\ COLORMAP' = res.COLORMAP
        /\ Fail(r, "plot", res.out.exc)
        /\ UNCHANGED <<data, ret, rdata, rendered, conns, attempts>>

\* The handler returns its page (every chart of get_plots) or its JSON text.
Respond(r) ==
    /\ req[r].pc = "respond"
    /\ req' = [req EXCEPT
          ![r].pc = "done",
          ![r].response = "200",
          ![r].body = IF req[r].handler = "index" THEN req[r].charts
                      ELSE LatestOf(req[r].data)]
    /\ UNCHANGED <<data, ret, COLORMAP, rdata, rendered, conns, attempts, failedAt>>

\* The Flask application answers an exception that left the handler with
\* 500 Internal Server Error.
HandleException(r) ==
    /\ req[r].pc = "raised"
    /\ req' = [req EXCEPT ![r].pc = "done", ![r].response = "500"]
    /\ UNCHANGED <<data, ret, COLORMAP, rdata, rendered, conns, attempts, failedAt>>

\* After the request, the traceback is collected and the connection it kept
\* alive is closed by its deallocation.
Finalize(c) ==
    /\ conns[c].state = "open"
    /\ ~conns[c].inCall
    /\ req[conns[c].owner].pc = "done"
    /\ conns' = [conns EXCEPT ![c].state = "closed"]
    /\ UNCHANGED <<data, ret, COLORMAP, rdata, rendered, req, attempts, failedAt>>

Init ==
    /\ PureIdle
    /\ RenderIdle
    /\ COLORMAP = Dark2
    /\ req = [r \in ReqIds |-> IdleReq]
    /\ conns = <<>>
    /\ attempts = [r \in ReqIds |-> [q \in 1..3 |-> 0]]
    /\ failedAt = [r \in ReqIds |-> NoFailure]

Next ==
    \/ \E r \in ReqIds : Arrive(r, "index")
    \/ \E r \in ReqIds : Arrive(r, "latest")
    \/ \E r \in ReqIds : ConnectOK(r)
    \/ \E r \in ReqIds : ConnectFail(r)
    \/ \E r \in ReqIds : Execute(r)
    \/ \E r \in ReqIds : ExitWith(r)
    \/ \E r \in ReqIds : RegularizeOK(r)
    \/ \E r \in ReqIds : RegularizeRaise(r)
    \/ \E r \in ReqIds : ReturnQuery(r)
    \/ \E r \in ReqIds : PlotOK(r)
    \/ \E r \in ReqIds : PlotRaise(r)
    \/ \E r \in ReqIds : Respond(r)
    \/ \E r \in ReqIds : HandleException(r)
    \/ \E c \in DOMAIN conns : Finalize(c)

Spec == Init /\ [][Next]_vars

-----------------------------------------------------------------------------
(* Properties of regularize_timeseries (SpecRegularize) *)

Regularized == ret.fn = "regularize_timeseries"

\* The input rows of fact f that floor to boundary b.
RowsAt(f, b) == {i \in DOMAIN data : data[i].fact_name = f /\ Floor(data[i].ts) = b}

FloorsOf(f) == {Floor(data[i].ts) : i \in {j \in DOMAIN data : data[j].fact_name = f}}

SeriesOf(out, f) == SelectSeq(out, LAMBDA r : r.fact_name = f)

RECURSIVE SumOver(_)
SumOver(I) ==
    IF I = {} THEN 0 ELSE LET i == CHOOSE j \in I : TRUE
                          IN  data[i].fact_value + SumOver(I \ {i})

\* C1: for a non-empty input, the records of each fact_name run from the
\* fact's least floored timestamp to its greatest in steps of exactly
\* TIMESTEP_MINS minutes, strictly increasing, so every boundary of that range
\* appears exactly once; no other fact_name appears in the output.
C1_RegularGrid ==
    (Regularized /\ data # <<>>) =>
        /\ ret.out.kind = "return"
        /\ \A i \in DOMAIN ret.out.value : ret.out.value[i].fact_name \in FactNames(data)
        /\ \A f \in FactNames(data) :
              LET series == SeriesOf(ret.out.value, f)
              IN  /\ series # <<>>
                  /\ series[1].ts = Min(FloorsOf(f))
                  /\ series[Len(series)].ts = Max(FloorsOf(f))
                  /\ \A i \in 1..(Len(series) - 1) :
                        series[i + 1].ts = series[i].ts + TIMESTEP_MINS

\* A series of three boundaries whose middle one had no sample.
C1_Witness ==
    /\ Regularized
    /\ ret.out.kind = "return"
    /\ \E f \in FactNames(data) :
          LET series == SeriesOf(ret.out.value, f)
          IN  /\ Len(series) = 3
              /\ RowsAt(f, series[2].ts) = {}
              /\ RowsAt(f, series[3].ts) # {}

\* C2: every output record's fact_value is the arithmetic mean of the values
\* of all input rows of its fact_name that floor to its boundary, each row
\* counted once per occurrence; a boundary with no such row holds NaN (an
\* explicit absent value, not zero, not an error).
C2_BucketMean ==
    (Regularized /\ data # <<>>) =>
        /\ ret.out.kind = "return"
        /\ \A i \in DOMAIN ret.out.value :
              LET rec == ret.out.value[i]
                  I == RowsAt(rec.fact_name, rec.ts)
              IN  IF I = {}
                  THEN rec.fact_value = NaN
                  ELSE /\ rec.fact_value.kind = "float"
                       /\ rec.fact_value.den > 0
                       /\ rec.fact_value.num * Cardinality(I)
                              = SumOver(I) * rec.fact_value.den

\* Two rows with the same timestamp and fact_name but different values are
\* averaged, and a later boundary of the same fact had no sample.
C2_Witness ==
    /\ Regularized
    /\ ret.out.kind = "return"
    /\ \E i, j \in DOMAIN data :
          /\ i < j
          /\ data[i].ts = data[j].ts
          /\ data[i].fact_name = data[j].fact_name
          /\ data[i].fact_value # data[j].fact_value
          /\ \E k \in DOMAIN ret.out.value :
                /\ ret.out.value[k].fact_name = data[i].fact_name
                /\ ret.out.value[k].ts = Floor(data[i].ts)
                /\ ret.out.value[k].fact_value = Float(130, 2)
          /\ \E k \in DOMAIN ret.out.value :
                /\ ret.out.value[k].fact_name = data[i].fact_name
                /\ ret.out.value[k].fact_value = NaN

\* C3: an empty input yields an empty output list and no error.
C3_EmptyInputEmptyOutput ==
    (Regularized /\ data = <<>>) =>
        (ret.out.kind = "return" /\ ret.out.value = <<>>)

-----------------------------------------------------------------------------
(* Properties of render_latest_facts (SpecLatest) *)

\* C4: the mapping has exactly the fact_names that have a row; each entry is
\* a row of that fact with the greatest timestamp of the fact's rows, without
\* the fact_name key.
C4_LatestPerFact ==
    ret.fn = "render_latest_facts" =>
        LET latest == ret.out.value
        IN  /\ DOMAIN latest = FactNames(data)
            /\ \A f \in DOMAIN latest :
                  /\ DOMAIN latest[f] = {"ts", "fact_value"}
                  /\ latest[f].ts = Max({data[i].ts : i \in {j \in DOMAIN data : data[j].fact_name = f}})
                  /\ \E i \in DOMAIN data :
                        /\ data[i].fact_name = f
                        /\ data[i].ts = latest[f].ts
                        /\ data[i].fact_value = latest[f].fact_value

\* One fact has its later row first in the input and an earlier row after it;
\* the other sample fact has no row and is absent from the mapping.
C4_Witness ==
    /\ ret.fn = "render_latest_facts"
    /\ Cardinality(DOMAIN ret.out.value) = 1
    /\ \E i, j \in DOMAIN data :
          /\ i < j
          /\ data[i].fact_name = data[j].fact_name
          /\ data[i].ts > data[j].ts
          /\ data[i].fact_value # data[j].fact_value
          /\ ret.out.value[data[i].fact_name].fact_value = data[i].fact_value

-----------------------------------------------------------------------------
(* Properties of the renders (SpecLines) *)

Called(r) == rendered[r].fn # "none"
Returned(r) == Called(r) /\ rendered[r].out.kind = "return"
LinesOf(r) == rendered[r].out.value.lines

\* C5: a plot function given no records returns a chart with no line.
C5_EmptyChart ==
    \A r \in Renders :
        (Called(r) /\ rdata[r] = <<>>) => (Returned(r) /\ LinesOf(r) = <<>>)

\* C6: for records with k >= 1 distinct fact_names the render completes and
\* adds exactly k lines, one per fact_name, with pairwise distinct colours of
\* the palette of size k.
C6_OneLinePerFact ==
    \A r \in Renders :
        (Called(r) /\ rdata[r] # <<>>) =>
            /\ Returned(r)
            /\ Len(LinesOf(r)) = Cardinality(FactNames(rdata[r]))
            /\ {LinesOf(r)[i].legend_label : i \in DOMAIN LinesOf(r)} = FactNames(rdata[r])
            /\ \A i, j \in DOMAIN LinesOf(r) :
                  i # j => LinesOf(r)[i].color # LinesOf(r)[j].color

\* The colour of each fact's line in a returned chart.
Colours(r) ==
    {<<LinesOf(r)[i].legend_label, LinesOf(r)[i].color>> : i \in DOMAIN LinesOf(r)}

\* C10: COLORMAP is never changed, and two renders of the same set of
\* fact_names end the same way and give each fact_name the same colour,
\* whatever the order of their records and whichever ran first.
C10_StableColours ==
    /\ COLORMAP = Dark2
    /\ \A r1, r2 \in Renders :
          (Called(r1) /\ Called(r2) /\ FactNames(rdata[r1]) = FactNames(rdata[r2])) =>
              /\ rendered[r1].out.kind = rendered[r2].out.kind
              /\ Returned(r1) => Colours(r1) = Colours(r2)

\* Both renders drew the same three facts from differently ordered records.
C10_Witness ==
    \E r1, r2 \in Renders :
        /\ r1 # r2
        /\ Returned(r1) /\ Returned(r2)
        /\ FactNames(rdata[r1]) = FactNames(rdata[r2])
        /\ rdata[r1] # rdata[r2]
        /\ Len(LinesOf(r1)) = 3

-----------------------------------------------------------------------------
(* Properties of the request handlers (Spec) *)

Failed(r) == failedAt[r].q # 0

\* C7, as stated: a GET / request one of whose queries failed still ends
\* with the page (the other charts) and not with an error.
C7_PageSurvivesFailure ==
    \A r \in ReqIds :
        (req[r].handler = "index" /\ Failed(r) /\ req[r].pc = "done") =>
            req[r].response = "200"

\* C7, amended: when a query of GET / fails (connect, resample or render
\* raises), the exception leaves get_plots and the handler: no later query is
\* attempted, no page is returned and the request ends with status 500.
C7_FailureFailsPage ==
    \A r \in ReqIds :
        (req[r].handler = "index" /\ Failed(r)) =>
            /\ req[r].pc \in {"raised", "done"}
            /\ req[r].q = failedAt[r].q
            /\ \A p \in 1..3 : p > failedAt[r].q => attempts[r][p] = 0
            /\ req[r].body = <<>>
            /\ req[r].response = IF req[r].pc = "done" THEN "500" ELSE "none"

\* The second chart's render failed after the first chart had been built, and
\* the request ended with 500.
C7_Witness ==
    \E r \in ReqIds :
        /\ req[r].handler = "index"
        /\ failedAt[r].q = 2
        /\ failedAt[r].step \in {"regularize", "plot"}
        /\ Len(req[r].charts) = 1
        /\ req[r].pc = "done"
        /\ req[r].response = "500"

\* C8: when connect() fails for a query, that query made exactly one
\* connection attempt and opened no connection, no later query of the request
\* is attempted, and the request ends with status 500, never with 200.
C8_ConnectFailureNotRetried ==
    \A r \in ReqIds :
        failedAt[r].step = "connect" =>
            /\ attempts[r][failedAt[r].q] = 1
            /\ \A p \in 1..3 : p > failedAt[r].q => attempts[r][p] = 0
            /\ \A c \in DOMAIN conns :
                  ~(conns[c].owner = r /\ conns[c].q = failedAt[r].q)
            /\ req[r].pc \in {"raised", "done"}
            /\ req[r].response = IF req[r].pc = "done" THEN "500" ELSE "none"

\* The connection of a request's second query failed, after its first query
\* had connected, and the request ended with 500.
C8_Witness ==
    \E r \in ReqIds :
        /\ failedAt[r].step = "connect"
        /\ failedAt[r].q = 2
        /\ attempts[r][1] = 1
        /\ req[r].pc = "done"
        /\ req[r].response = "500"

\* C9: every connection belongs to one call of db_query, executes at most
\* one query (exactly one once the call has got past execute), is closed
\* once that call has returned or raised, and no connection of a finished
\* request is open.
C9_ConnectionScoped ==
    /\ \A c, e \in DOMAIN conns :
          (conns[c].owner = conns[e].owner /\ conns[c].q = conns[e].q) => c = e
    /\ \A c \in DOMAIN conns :
          /\ conns[c].executed <= 1
          /\ ~conns[c].inCall => (conns[c].executed = 1 /\ conns[c].state = "closed")
          /\ req[conns[c].owner].pc = "done" => conns[c].state = "closed"

====
